---- MODULE Spec2Model ----
(***************************************************************************)
(* fit_clinicalbert.py: the experiment orchestration around the ClinicalBERT *)
(* classifier: the drug-level train/val/test split, the run naming and      *)
(* --ifexists policy, the epoch loop of train() with its best-checkpoint    *)
(* rule, the final checkpoint, the metrics log and the test evaluation.     *)
(*                                                                         *)
(* The network itself is opaque: a forward pass yields, per batch, some     *)
(* number of correct predictions between 0 and the batch length.  Losses    *)
(* and wall times are opaque floats and are not represented.                *)
(*                                                                         *)
(* File names are the strings the code builds with f-strings, kept as TLA+  *)
(* strings (base names inside ./models/ and ./results/).                    *)
(***************************************************************************)
EXTENDS Integers, Sequences, FiniteSets, TLC

VARIABLES
    pc,                         \* per run: position in __main__ / train()
    args,                       \* per run: parsed command line (lines 207-233)
    df,                         \* per run: the 'drug' column of the reference set, one entry per row
    filename_params,            \* per run: line 235 / 245
    final_model_filename,       \* per run: line 236 / 246 (base name)
    best_epoch_model_filename,  \* per run: line 285 (base name)
    df_train, df_val, df_test,  \* per run: row indices of df in each split (lines 275-277)
    epoch_num,                  \* per run: train() loop variable, epochs completed so far
    val_batch,                  \* per run: validation batches consumed in the current epoch
    total_acc_val,              \* per run: line 133 / 150
    best_val_acc,               \* per run: line 102 / 153
    training_results,           \* per run: the per-epoch lists of lines 103-107 (one record per append)
    status,                     \* per run: how the process ended
    models,                     \* ./models/ : file name -> run that wrote it last (0: there before any run)
    results,                    \* ./results/ : file name -> [by, rows] of the csv written last
    hist,                       \* per run: history counters used to state the properties
    launches,                   \* number of runs started so far
    shuffled                    \* per run: druglist after random.shuffle (line 268)

vars == << pc, args, df, filename_params, final_model_filename,
           best_epoch_model_filename, df_train, df_val, df_test, epoch_num,
           val_batch, total_acc_val, best_val_acc, training_results, status,
           models, results, hist, launches, shuffled >>

-----------------------------------------------------------------------------
(* Bounds of the model *)

MaxEpochs == 2          \* --epochs ranges over 0..MaxEpochs
MaxBatchSize == 2       \* --batch-size ranges over 1..MaxBatchSize
MaxDrugs == 6           \* distinct drugs in a reference set of the pipeline
MaxRowsPerDrug == 1     \* rows per drug in a reference set of the pipeline
MaxRuns == 2            \* runs launched one after another
MaxValRows == 3         \* rows of the validation frame handed to train() alone
MaxTrainEpochs == 3     \* epochs handed to train() alone

(* Program constants *)

np_random_seed == 222
random_state == 24
default_max_length == 128

Procs == {1, 2}

-----------------------------------------------------------------------------
(* Pure helpers *)

Min(a, b) == IF a < b THEN a ELSE b

SetMin(S) == CHOOSE x \in S : \A y \in S : x <= y

\* sorted(set(...)) of line 265: ascending, duplicates removed
RECURSIVE sorted(_)
sorted(S) ==
    IF S = {} THEN << >>
    ELSE LET m == SetMin(S) IN << m >> \o sorted(S \ {m})

\* set(df['drug'])
set(column) == { column[i] : i \in 1..Len(column) }

Range(s) == { s[i] : i \in 1..Len(s) }

\* all orders of a list: the possible results of random.shuffle over all seeds
RECURSIVE Orders(_)
Orders(S) ==
    IF S = {} THEN { << >> }
    ELSE UNION { { << x >> \o t : t \in Orders(S \ {x}) } : x \in S }

\* int(frac * n) for frac = tenths/10 (lines 270): truncation of a non-negative product
int_frac(tenths, n) == (tenths * n) \div 10

\* (variant: the last part starts one element late)
np_split_gap(lst, a, b) ==
    << SubSeq(lst, 1, a), SubSeq(lst, a + 1, b), SubSeq(lst, b + 2, Len(lst)) >>

\* np.split(lst, [a, b]) of line 270: lst[:a], lst[a:b], lst[b:]
np_split(lst, a, b) ==
    << SubSeq(lst, 1, a), SubSeq(lst, a + 1, b), SubSeq(lst, b + 1, Len(lst)) >>

\* df[df['drug'].isin(drugs)] of lines 275-277: the rows, in df order, whose drug is listed
RECURSIVE isin_rows(_, _, _)
isin_rows(column, drugs, i) ==
    IF i > Len(column) THEN << >>
    ELSE (IF column[i] \in Range(drugs) THEN << i >> ELSE << >>)
         \o isin_rows(column, drugs, i + 1)

\* lines 270-277 for an already shuffled druglist
SplitByDrug(column, druglist) ==
    LET n == Len(druglist)
        parts == np_split(druglist, int_frac(8, n), int_frac(9, n))
    IN [ drugs_train |-> parts[1], drugs_val |-> parts[2], drugs_test |-> parts[3],
         df_train |-> isin_rows(column, parts[1], 1),
         df_val   |-> isin_rows(column, parts[2], 1),
         df_test  |-> isin_rows(column, parts[3], 1) ]

\* random.seed(222); random.shuffle(lst) of lines 267-268: CPython's shuffle draws
\* depend only on the seed and the list length, so the seed fixes one index
\* permutation per length (tabulated from CPython's random for seed 222).
Shuffle222Table ==
    << << 1 >>,
       << 2, 1 >>,
       << 2, 3, 1 >>,
       << 3, 2, 4, 1 >>,
       << 5, 3, 4, 2, 1 >>,
       << 4, 6, 5, 3, 2, 1 >>,
       << 4, 6, 5, 3, 2, 1, 7 >>,
       << 5, 7, 4, 1, 6, 3, 8, 2 >>,
       << 6, 8, 9, 5, 1, 7, 3, 4, 2 >> >>

random_shuffle(lst) ==
    IF Len(lst) = 0 THEN lst
    ELSE [ i \in 1..Len(lst) |-> lst[Shuffle222Table[Len(lst)][i]] ]

-----------------------------------------------------------------------------
(* File names *)

\* str.find(sub) of line 244: lowest 0-based index of sub in s, -1 when absent
RECURSIVE find_from(_, _, _)
find_from(s, sub, i) ==
    IF i + Len(sub) > Len(s) THEN -1
    ELSE IF SubSeq(s, i + 1, i + Len(sub)) = sub THEN i
    ELSE find_from(s, sub, i + 1)

find(s, sub) == find_from(s, sub, 0)

\* line 235: f'{refset}_{np_random_seed}_{random_state}_{EPOCHS}_{LR}_{max_length}_{batch_size}'
FilenameParams(a) ==
    ToString(a.refset) \o "_" \o ToString(np_random_seed) \o "_" \o ToString(random_state)
    \o "_" \o ToString(a.epochs) \o "_" \o a.learning_rate \o "_" \o ToString(a.max_length)
    \o "_" \o ToString(a.batch_size)

\* lines 236 and 246: f'./models/final-bydrug_{filename_params}.pth' (base name)
FinalModelFilename(params) == "final-bydrug_" \o params \o ".pth"

\* line 285: f'./models/final-bydrug_{filename_params}_BestEpoch.pth' (base name)
BestEpochModelFilename(params) == "final-bydrug_" \o params \o "_BestEpoch.pth"

\* line 294: f'./results/epoch-results_{filename_params}.csv' (base name)
EpochResultsFilename(params) == "epoch-results_" \o params \o ".csv"

\* line 244: [f for f in os.listdir('./models/') if f.find(filename_params) != 0]
Reps(listing, params) == { f \in listing : find(f, params) # 0 }

\* line 245: the identity of a replicate run
ReplicateParams(params, reps) == params \o "_rep" \o ToString(Cardinality(reps))

\* line 296: the header row of the metrics log
CsvHeader == << "epoch", "train_loss", "train_accuracy", "valid_loss", "valid_accuracy", "epoch_time" >>

\* lines 297-298: one row per epoch in range(EPOCHS): [epoch+1] followed by the
\* epoch's entry of each of the five lists train() returned.  The cells are floats;
\* a row keeps the epoch number and how many metric cells follow it.
NumMetricLists == 5

\* (variant: the epoch column written as epoch instead of epoch+1)
CsvRows_zero_based(epochs, lists) ==
    [ e \in 1..epochs |-> [ epoch |-> e - 1, cells |-> IF e <= Len(lists) THEN NumMetricLists ELSE 0 ] ]

CsvRows(epochs, lists) ==
    [ e \in 1..epochs |-> [ epoch |-> e, cells |-> IF e <= Len(lists) THEN NumMetricLists ELSE 0 ] ]

\* ./models/Bio_ClinicalBERT (line 23) is loaded at line 26, so it is always there
PretrainedDir == "Bio_ClinicalBERT"

-----------------------------------------------------------------------------
(* Inputs *)

Policies == { "quit", "replicate", "overwrite", "skip" }   \* "skip": an unrecognised value

\* a reference set with nd distinct drugs, k rows each
UniformColumn(nd, k) == [ i \in 1..(nd * k) |-> ((i - 1) % nd) + 1 ]

\* drug counts that give each shape of split: nothing at all, a test split only,
\* no validation split, and all three splits
Datasets == { UniformColumn(nd, MaxRowsPerDrug) : nd \in { 0, 1, 2, MaxDrugs } }

\* a reference set with drugs 1..nd, one row each, drug dbl (if any) having two
DoubledColumn(nd, dbl) ==
    [ i \in 1..(nd + (IF dbl > 0 THEN 1 ELSE 0)) |-> IF dbl = 0 \/ i <= dbl THEN i ELSE i - 1 ]

Reverse(s) == [ i \in 1..Len(s) |-> s[Len(s) + 1 - i] ]

SplitDatasets ==
    LET cols == { DoubledColumn(nd, dbl) : nd \in 0..MaxDrugs, dbl \in 0..MaxDrugs }
        ok == { c \in cols : Len(c) = 0 \/ c[Len(c)] = Cardinality(set(c)) }
    IN ok \cup { Reverse(c) : c \in ok }

ArgSets(epochBound) ==
    [ refset : {1}, epochs : 0..epochBound, learning_rate : {"1e-06"},
      max_length : {default_max_length}, batch_size : 1..MaxBatchSize,
      ifexists : Policies,
      names_bound : BOOLEAN ]

NoArgs == [ refset |-> 1, epochs |-> 0, learning_rate |-> "1e-06",
            max_length |-> default_max_length, batch_size |-> 1,
            ifexists |-> "quit", names_bound |-> FALSE ]

\* what a run has done so far: torch.save calls on the best and the final
\* checkpoint, metrics logs written, evaluate() calls, epochs begun, whether the
\* best checkpoint was saved in the current epoch, the largest per-batch correct
\* count seen, what the existence check found, the split sizes, the file loaded
NoHist == [ n_best |-> 0, n_final |-> 0, n_log |-> 0, n_eval |-> 0, n_epochs |-> 0,
            wrote_epoch |-> FALSE, batch_max |-> 0, existed |-> FALSE,
            true_reps |-> 0, rep_index |-> -1, split_done |-> FALSE,
            sizes |-> << 0, 0, 0 >>, loaded |-> "" ]

-----------------------------------------------------------------------------
(* State *)

\* the memory of a process that has not loaded anything yet, or has exited
ClearMem(p) ==
    /\ df' = [df EXCEPT ![p] = << >>]
    /\ best_epoch_model_filename' = [best_epoch_model_filename EXCEPT ![p] = ""]
    /\ df_train' = [df_train EXCEPT ![p] = << >>]
    /\ df_val' = [df_val EXCEPT ![p] = << >>]
    /\ df_test' = [df_test EXCEPT ![p] = << >>]
    /\ shuffled' = [shuffled EXCEPT ![p] = << >>]
    /\ epoch_num' = [epoch_num EXCEPT ![p] = 0]
    /\ val_batch' = [val_batch EXCEPT ![p] = 0]
    /\ total_acc_val' = [total_acc_val EXCEPT ![p] = 0]
    /\ best_val_acc' = [best_val_acc EXCEPT ![p] = 0]
    /\ training_results' = [training_results EXCEPT ![p] = << >>]

mem == << df, best_epoch_model_filename, df_train, df_val, df_test, shuffled,
          epoch_num, val_batch, total_acc_val, best_val_acc, training_results >>

InitCommon ==
    /\ args = [p \in Procs |-> NoArgs]
    /\ filename_params = [p \in Procs |-> ""]
    /\ final_model_filename = [p \in Procs |-> ""]
    /\ best_epoch_model_filename = [p \in Procs |-> ""]
    /\ df_train = [p \in Procs |-> << >>]
    /\ df_val = [p \in Procs |-> << >>]
    /\ df_test = [p \in Procs |-> << >>]
    /\ shuffled = [p \in Procs |-> << >>]
    /\ epoch_num = [p \in Procs |-> 0]
    /\ val_batch = [p \in Procs |-> 0]
    /\ total_acc_val = [p \in Procs |-> 0]
    /\ best_val_acc = [p \in Procs |-> 0]
    /\ training_results = [p \in Procs |-> << >>]
    /\ status = [p \in Procs |-> "none"]
    /\ hist = [p \in Procs |-> NoHist]
    /\ results = << >>
    /\ launches = 0

\* before any run: ./models/ holds the pretrained encoder only, ./results/ is empty
Init ==
    /\ InitCommon
    /\ df = [p \in Procs |-> << >>]
    /\ pc = [p \in Procs |-> "idle"]
    /\ models = (PretrainedDir :> 0)

-----------------------------------------------------------------------------
(* __main__ *)

\* (variant: an exclusive create, which leaves an existing file alone)
SaveModel_exclusive(name, p) ==
    models' = IF name \in DOMAIN models THEN models ELSE (name :> p) @@ models

\* torch.save(..., './models/' + name) by run p: creates or replaces the file
SaveModel(name, p) == models' = (name :> p) @@ models

\* torch.load('./models/' + name): the file read (FileNotFoundError if absent)
load_path(name) == IF name \in DOMAIN models THEN name ELSE "FileNotFoundError"

\* os.path.exists('./models/' + name)
path_exists(name) == name \in DOMAIN models

\* the replicate files of an identity: final checkpoints named <identity>_rep<k>
ReplicateFinals(listing, params) ==
    { f \in listing : \E k \in 0..(Cardinality(listing) + MaxRuns) :
          f = FinalModelFilename(params \o "_rep" \o ToString(k)) }

\* the process ends (sys.exit, an uncaught exception, or the end of the script):
\* its memory is gone, its exit status and what it left on disk remain
End(p, how) ==
    /\ pc' = [pc EXCEPT ![p] = "done"]
    /\ status' = [status EXCEPT ![p] = how]
    /\ ClearMem(p)

Goto(p, label) ==
    /\ pc' = [pc EXCEPT ![p] = label]
    /\ UNCHANGED status

ExitCode(how) == IF how = "ok" THEN 0 ELSE 1

\* lines 207-233: the command line is parsed and the reference set read
Launch(p, epochBound, limit) ==
    /\ pc[p] \in { "idle", "done" }
    /\ launches < limit
    /\ \E a \in ArgSets(epochBound), d \in Datasets :
          /\ args' = [args EXCEPT ![p] = a]
          /\ df' = [df EXCEPT ![p] = d]
    /\ launches' = launches + 1
    /\ pc' = [pc EXCEPT ![p] = "check"]
    /\ status' = [status EXCEPT ![p] = "running"]
    /\ filename_params' = [filename_params EXCEPT ![p] = ""]
    /\ final_model_filename' = [final_model_filename EXCEPT ![p] = ""]
    /\ hist' = [hist EXCEPT ![p] = NoHist]
    /\ UNCHANGED << best_epoch_model_filename, df_train, df_val, df_test, shuffled,
                    epoch_num, val_batch, total_acc_val, best_val_acc,
                    training_results, models, results >>

\* (variant: the quit branch prints its message and falls through)
Quit_falls_through(p) == Goto(p, "split") /\ UNCHANGED mem

\* lines 239-241: sys.exit(1)
Quit(p) == End(p, "SystemExit1")

\* the existence policy of lines 239-255, once the final checkpoint was found to exist
IfExists(p, params, final, confirm) ==
    LET listing == DOMAIN models
        seen == [hist[p] EXCEPT !.existed = TRUE,
                                !.true_reps = Cardinality(ReplicateFinals(listing, params))]
    IN
    CASE args[p].ifexists = "quit" ->
            /\ Quit(p)
            /\ hist' = [hist EXCEPT ![p] = seen]
            /\ filename_params' = [filename_params EXCEPT ![p] = params]
            /\ final_model_filename' = [final_model_filename EXCEPT ![p] = final]
      [] args[p].ifexists = "replicate" ->
            LET reps == Reps(listing, params)
                newparams == ReplicateParams(params, reps)
            IN /\ Goto(p, "split")
               /\ UNCHANGED mem
               /\ hist' = [hist EXCEPT ![p] = [seen EXCEPT !.rep_index = Cardinality(reps)]]
               /\ filename_params' = [filename_params EXCEPT ![p] = newparams]
               /\ final_model_filename' =
                      [final_model_filename EXCEPT ![p] = FinalModelFilename(newparams)]
      [] args[p].ifexists = "overwrite" ->
            /\ IF confirm # "y"
               THEN End(p, "SystemExit1")
               ELSE Goto(p, "split") /\ UNCHANGED mem
            /\ hist' = [hist EXCEPT ![p] = seen]
            /\ filename_params' = [filename_params EXCEPT ![p] = params]
            /\ final_model_filename' = [final_model_filename EXCEPT ![p] = final]
      [] OTHER ->
            /\ End(p, "Exception")
            /\ hist' = [hist EXCEPT ![p] = seen]
            /\ filename_params' = [filename_params EXCEPT ![p] = params]
            /\ final_model_filename' = [final_model_filename EXCEPT ![p] = final]

\* lines 234-255: name the run and apply --ifexists.  The file imports neither os
\* nor sys (lines 9-20): line 237 raises NameError unless the namespace the script
\* is executed in already binds them.
CheckExisting(p) ==
    /\ pc[p] = "check"
    /\ LET params == FilenameParams(args[p])
           final == FinalModelFilename(params)
       IN IF ~args[p].names_bound
          THEN /\ End(p, "NameError")
               /\ filename_params' = [filename_params EXCEPT ![p] = params]
               /\ final_model_filename' = [final_model_filename EXCEPT ![p] = final]
               /\ hist' = [hist EXCEPT ![p].existed = path_exists(final)]
          ELSE IF path_exists(final)
          THEN \E confirm \in { "y", "N" } : IfExists(p, params, final, confirm)
          ELSE /\ Goto(p, "split")
               /\ filename_params' = [filename_params EXCEPT ![p] = params]
               /\ final_model_filename' = [final_model_filename EXCEPT ![p] = final]
               /\ UNCHANGED << hist, mem >>
    /\ UNCHANGED << args, models, results, launches >>

\* lines 258-280: split by drug with the fixed seed
SplitData(p) ==
    /\ pc[p] = "split"
    /\ LET druglist == random_shuffle(sorted(set(df[p])))
           s == SplitByDrug(df[p], druglist)
       IN /\ shuffled' = [shuffled EXCEPT ![p] = druglist]
          /\ df_train' = [df_train EXCEPT ![p] = s.df_train]
          /\ df_val' = [df_val EXCEPT ![p] = s.df_val]
          /\ df_test' = [df_test EXCEPT ![p] = s.df_test]
          /\ hist' = [hist EXCEPT ![p].split_done = TRUE,
                                  ![p].sizes = << Len(s.df_train), Len(s.df_val), Len(s.df_test) >>]
    /\ Goto(p, "fit")
    /\ UNCHANGED << args, df, filename_params, final_model_filename,
                    best_epoch_model_filename, epoch_num, val_batch, total_acc_val,
                    best_val_acc, training_results, models, results, launches >>

\* lines 282-287: build the model, name the best-epoch checkpoint, call train()
Fit(p) ==
    /\ pc[p] = "fit"
    /\ best_epoch_model_filename' =
           [best_epoch_model_filename EXCEPT ![p] = BestEpochModelFilename(filename_params[p])]
    /\ Goto(p, "train")
    /\ UNCHANGED << args, df, filename_params, final_model_filename, df_train, df_val,
                    df_test, epoch_num, val_batch, total_acc_val, best_val_acc,
                    training_results, models, results, hist, launches, shuffled >>

-----------------------------------------------------------------------------
(* train() *)

\* len(val_dataloader): batches of a split of n rows
NumBatches(n, batch_size) == (n + batch_size - 1) \div batch_size

\* rows in the k-th batch (k from 0); the last one may be partial
BatchLen(n, batch_size, k) == Min(batch_size, n - k * batch_size)

\* (variant: range(epochs - 1))
LoopHead_short(p, done) == IF done < args[p].epochs - 1 THEN "epoch" ELSE "save"

\* for epoch_num in range(epochs), line 109: enter the body or return (line 168)
LoopHead(p, done) == IF done < args[p].epochs THEN "epoch" ELSE "save"

\* DataLoader(train, shuffle=True) of line 87 on an empty frame: torch's
\* RandomSampler rejects an empty data source with ValueError in the releases
\* that check num_samples > 0 and accepts it in the others
EmptyLoaderRaises(n) == IF n = 0 THEN BOOLEAN ELSE { FALSE }

\* lines 85-107: data loaders, optimizer, best_val_acc = 0.0 and the empty lists
TrainInit(p) ==
    /\ pc[p] = "train"
    /\ \E raises \in EmptyLoaderRaises(Len(df_train[p])) :
          IF raises
          THEN End(p, "ValueError")
          ELSE /\ best_val_acc' = [best_val_acc EXCEPT ![p] = 0]
               /\ training_results' = [training_results EXCEPT ![p] = << >>]
               /\ epoch_num' = [epoch_num EXCEPT ![p] = 0]
               /\ Goto(p, LoopHead(p, 0))
               /\ UNCHANGED << df, best_epoch_model_filename, df_train, df_val, df_test,
                               val_batch, total_acc_val, shuffled >>
    /\ UNCHANGED << args, filename_params, final_model_filename, models, results, hist,
                    launches >>

\* lines 111-134: the training batches of one epoch (parameters updated), then
\* total_acc_val = 0
TrainEpoch(p) ==
    /\ pc[p] = "epoch"
    /\ total_acc_val' = [total_acc_val EXCEPT ![p] = 0]
    /\ val_batch' = [val_batch EXCEPT ![p] = 0]
    /\ hist' = [hist EXCEPT ![p].wrote_epoch = FALSE, ![p].n_epochs = @ + 1]
    /\ Goto(p, "val")
    /\ UNCHANGED << args, df, filename_params, final_model_filename,
                    best_epoch_model_filename, df_train, df_val, df_test, epoch_num,
                    best_val_acc, training_results, models, results, launches, shuffled >>

\* (variant: >= instead of >)
Improves_ge(acc, best) == acc >= best

\* line 152: the rule that decides a best-checkpoint write
Improves(acc, best) == acc > best

\* lines 138-154: one validation batch; acc is its number of correct predictions
ValBatch(p) ==
    /\ pc[p] = "val"
    /\ val_batch[p] < NumBatches(Len(df_val[p]), args[p].batch_size)
    /\ \E acc \in 0..BatchLen(Len(df_val[p]), args[p].batch_size, val_batch[p]) :
          /\ total_acc_val' = [total_acc_val EXCEPT ![p] = @ + acc]
          /\ IF Improves(acc, best_val_acc[p])
             THEN /\ best_val_acc' = [best_val_acc EXCEPT ![p] = acc]
                  /\ SaveModel(best_epoch_model_filename[p], p)
                  /\ hist' = [hist EXCEPT ![p].n_best = @ + 1,
                                          ![p].wrote_epoch = TRUE,
                                          ![p].batch_max = IF acc > @ THEN acc ELSE @]
             ELSE /\ UNCHANGED << best_val_acc, models >>
                  /\ hist' = [hist EXCEPT ![p].batch_max = IF acc > @ THEN acc ELSE @]
    /\ val_batch' = [val_batch EXCEPT ![p] = @ + 1]
    /\ UNCHANGED << pc, status, args, df, filename_params, final_model_filename,
                    best_epoch_model_filename, df_train, df_val, df_test, epoch_num,
                    training_results, results, launches, shuffled >>

\* lines 157-166: the epoch's aggregates, divided by len(train_data) and
\* len(val_data); a division by zero raises ZeroDivisionError
EpochEnd(p) ==
    /\ pc[p] = "val"
    /\ val_batch[p] = NumBatches(Len(df_val[p]), args[p].batch_size)
    /\ IF Len(df_train[p]) = 0 \/ Len(df_val[p]) = 0
       THEN End(p, "ZeroDivisionError")
       ELSE /\ training_results' = [training_results EXCEPT ![p] =
                   Append(@, [ valid_accuracy |-> << total_acc_val[p], Len(df_val[p]) >> ])]
            /\ epoch_num' = [epoch_num EXCEPT ![p] = @ + 1]
            /\ Goto(p, LoopHead(p, epoch_num[p] + 1))
            /\ UNCHANGED << df, best_epoch_model_filename, df_train, df_val, df_test,
                            val_batch, total_acc_val, best_val_acc, shuffled >>
    /\ UNCHANGED << args, filename_params, final_model_filename, models, results,
                    hist, launches >>

-----------------------------------------------------------------------------
(* __main__, after train() *)

\* lines 289-291: torch.save(model.state_dict(), final_model_filename)
SaveFinal(p) ==
    /\ pc[p] = "save"
    /\ SaveModel(final_model_filename[p], p)
    /\ hist' = [hist EXCEPT ![p].n_final = @ + 1]
    /\ Goto(p, "log")
    /\ UNCHANGED << args, df, filename_params, final_model_filename,
                    best_epoch_model_filename, df_train, df_val, df_test, epoch_num,
                    val_batch, total_acc_val, best_val_acc, training_results, results,
                    launches, shuffled >>

\* lines 293-299: the metrics log, header and one row per epoch, written in one pass
WriteLog(p) ==
    /\ pc[p] = "log"
    /\ results' = (EpochResultsFilename(filename_params[p]) :>
                      [ by |-> p,
                        header |-> CsvHeader,
                        rows |-> CsvRows(args[p].epochs, training_results[p]) ]) @@ results
    /\ hist' = [hist EXCEPT ![p].n_log = @ + 1]
    /\ Goto(p, "evaluate")
    /\ UNCHANGED << args, df, filename_params, final_model_filename,
                    best_epoch_model_filename, df_train, df_val, df_test, epoch_num,
                    val_batch, total_acc_val, best_val_acc, training_results, models,
                    launches, shuffled >>

\* lines 301-307 and evaluate(): load the final checkpoint, run the test split,
\* print total_acc_test / len(test_data)
Evaluate(p) ==
    /\ pc[p] = "evaluate"
    /\ hist' = [hist EXCEPT ![p].n_eval = @ + 1,
                            ![p].loaded = load_path(final_model_filename[p])]
    /\ End(p, IF Len(df_test[p]) = 0 THEN "ZeroDivisionError" ELSE "ok")
    /\ UNCHANGED << args, filename_params, final_model_filename, models, results,
                    launches >>

-----------------------------------------------------------------------------
(* Specifications *)

Step(p) ==
    \/ CheckExisting(p)
    \/ SplitData(p)
    \/ Fit(p)
    \/ TrainInit(p)
    \/ TrainEpoch(p)
    \/ ValBatch(p)
    \/ EpochEnd(p)
    \/ SaveFinal(p)
    \/ WriteLog(p)
    \/ Evaluate(p)

\* one operator launching runs one after another
Next ==
    \/ Launch(1, MaxEpochs, MaxRuns)
    \/ Step(1)

Spec == Init /\ [][Next]_vars

-----------------------------------------------------------------------------
(* Two runs with the same RunConfig under --ifexists quit, started at any time *)

RaceArgSets ==
    { a \in ArgSets(MaxEpochs) : a.ifexists = "quit" /\ a.names_bound /\ a.epochs >= 1 }

LaunchSame(p) ==
    /\ pc[p] = "idle"
    /\ \E a \in RaceArgSets :
          /\ \A q \in Procs \ {p} : pc[q] # "idle" => a = args[q]
          /\ args' = [args EXCEPT ![p] = a]
    /\ df' = [df EXCEPT ![p] = UniformColumn(MaxDrugs, MaxRowsPerDrug)]
    /\ launches' = launches + 1
    /\ pc' = [pc EXCEPT ![p] = "check"]
    /\ status' = [status EXCEPT ![p] = "running"]
    /\ UNCHANGED << filename_params, final_model_filename, hist,
                    best_epoch_model_filename, df_train, df_val, df_test, shuffled,
                    epoch_num, val_batch, total_acc_val, best_val_acc,
                    training_results, models, results >>

NextRace == \E p \in Procs : LaunchSame(p) \/ Step(p)

SpecRace == Init /\ [][NextRace]_vars

-----------------------------------------------------------------------------
(* train() called on its own with any frames, epochs and batch size *)

Rows(n) == [ i \in 1..n |-> i ]

InitTrain ==
    /\ pc = [p \in Procs |-> IF p = 1 THEN "train" ELSE "idle"]
    /\ \E e \in 0..MaxTrainEpochs, b \in 1..MaxBatchSize :
          args = [p \in Procs |-> IF p = 1 THEN [NoArgs EXCEPT !.epochs = e, !.batch_size = b]
                                            ELSE NoArgs]
    /\ \E nt \in 0..1 : df_train = [p \in Procs |-> IF p = 1 THEN Rows(nt) ELSE << >>]
    /\ \E nv \in 0..MaxValRows : df_val = [p \in Procs |-> IF p = 1 THEN Rows(nv) ELSE << >>]
    /\ best_epoch_model_filename = [p \in Procs |-> IF p = 1 THEN "best.pth" ELSE ""]
    /\ df = [p \in Procs |-> << >>]
    /\ filename_params = [p \in Procs |-> ""]
    /\ final_model_filename = [p \in Procs |-> ""]
    /\ df_test = [p \in Procs |-> << >>]
    /\ shuffled = [p \in Procs |-> << >>]
    /\ epoch_num = [p \in Procs |-> 0]
    /\ val_batch = [p \in Procs |-> 0]
    /\ total_acc_val = [p \in Procs |-> 0]
    /\ best_val_acc = [p \in Procs |-> 0]
    /\ training_results = [p \in Procs |-> << >>]
    /\ status = [p \in Procs |-> IF p = 1 THEN "running" ELSE "none"]
    /\ hist = [p \in Procs |-> NoHist]
    /\ results = << >>
    /\ launches = 0
    /\ models = (PretrainedDir :> 0)

NextTrain == TrainInit(1) \/ TrainEpoch(1) \/ ValBatch(1) \/ EpochEnd(1)

SpecTrain == InitTrain /\ [][NextTrain]_vars

-----------------------------------------------------------------------------
(* The split of lines 265-277 on its own, over every reference set and every seed *)

InitSplit ==
    /\ InitCommon
    /\ \E d \in SplitDatasets : df = [p \in Procs |-> IF p = 1 THEN d ELSE << >>]
    /\ pc = [p \in Procs |-> IF p = 1 THEN "split" ELSE "idle"]
    /\ models = (PretrainedDir :> 0)

\* lines 265-277 with random.shuffle left open: any order of the sorted druglist
SplitAnySeed(p) ==
    /\ pc[p] = "split"
    /\ \E druglist \in Orders(set(df[p])) :
          LET s == SplitByDrug(df[p], druglist)
          IN /\ shuffled' = [shuffled EXCEPT ![p] = druglist]
             /\ df_train' = [df_train EXCEPT ![p] = s.df_train]
             /\ df_val' = [df_val EXCEPT ![p] = s.df_val]
             /\ df_test' = [df_test EXCEPT ![p] = s.df_test]
    /\ Goto(p, "fit")
    /\ UNCHANGED << args, df, filename_params, final_model_filename,
                    best_epoch_model_filename, epoch_num, val_batch, total_acc_val,
                    best_val_acc, training_results, models, results, hist, launches >>

NextSplit == SplitAnySeed(1)

SpecSplit == InitSplit /\ [][NextSplit]_vars

-----------------------------------------------------------------------------
(* Properties *)

Recognised == { "quit", "replicate", "overwrite" }

\* the drugs of the rows of a split
DrugsOf(p, rows) == { df[p][rows[i]] : i \in 1..Len(rows) }

\* C1: once the split is done, every row of the reference set is in exactly one
\* of df_train, df_val, df_test (so the three row counts sum to the row count),
\* every distinct drug has its rows in exactly one split and none is dropped.
C1_SplitPartitions ==
    pc[1] = "fit" =>
        LET tr == Range(df_train[1])  va == Range(df_val[1])  te == Range(df_test[1])
            dtr == DrugsOf(1, df_train[1])
            dva == DrugsOf(1, df_val[1])
            dte == DrugsOf(1, df_test[1])
        IN /\ tr \cup va \cup te = 1..Len(df[1])
           /\ tr \cap va = {} /\ tr \cap te = {} /\ va \cap te = {}
           /\ Cardinality(tr) = Len(df_train[1])
           /\ Cardinality(va) = Len(df_val[1])
           /\ Cardinality(te) = Len(df_test[1])
           /\ Len(df_train[1]) + Len(df_val[1]) + Len(df_test[1]) = Len(df[1])
           /\ dtr \cup dva \cup dte = set(df[1])
           /\ dtr \cap dva = {} /\ dtr \cap dte = {} /\ dva \cap dte = {}

\* a split with all three parts non-empty and a drug that has two rows
C1_Witness ==
    /\ pc[1] = "fit"
    /\ Len(df_train[1]) > 0 /\ Len(df_val[1]) > 0 /\ Len(df_test[1]) > 0
    /\ Len(df[1]) > Cardinality(set(df[1]))
    /\ shuffled[1] # sorted(set(df[1]))

\* C2: a run under --ifexists quit that found its final checkpoint present has
\* ended with a non-zero status without splitting, training, saving a best or a
\* final checkpoint, writing a metrics log or evaluating.
C2_QuitWritesNothing ==
    \A p \in Procs :
        (args[p].ifexists = "quit" /\ hist[p].existed) =>
            /\ pc[p] = "done"
            /\ ExitCode(status[p]) # 0
            /\ ~hist[p].split_done
            /\ hist[p].n_epochs = 0
            /\ hist[p].n_best = 0
            /\ hist[p].n_final = 0
            /\ hist[p].n_log = 0
            /\ hist[p].n_eval = 0

\* a quit run that reached sys.exit(1) because an earlier run left the checkpoint
C2_Witness ==
    /\ pc[1] = "done"
    /\ args[1].ifexists = "quit"
    /\ hist[1].existed
    /\ status[1] = "SystemExit1"
    /\ models[final_model_filename[1]] = 1

\* C3 (as claimed): a replicate run that found the base final checkpoint is named
\* with the number of replicate finals of its identity present at the check.
C3_ReplicateIndexIsCount ==
    \A p \in Procs :
        (args[p].ifexists = "replicate" /\ args[p].names_bound /\ hist[p].existed) =>
            hist[p].rep_index = hist[p].true_reps

\* C4 (as claimed): a run with an unrecognised --ifexists value ends with the
\* configuration error before any training, having written nothing, whether or
\* not its final checkpoint existed.
C4_UnrecognisedPolicyFails ==
    \A p \in Procs :
        (args[p].ifexists \notin Recognised /\ args[p].names_bound
             /\ pc[p] \notin { "idle", "check" }) =>
            /\ pc[p] = "done"
            /\ status[p] = "Exception"
            /\ hist[p].n_epochs = 0
            /\ hist[p].n_best = 0 /\ hist[p].n_final = 0 /\ hist[p].n_log = 0

\* C5: train() appends one record per epoch (as many records as epochs completed,
\* all of them once it returns); the metrics log is written once, only after
\* train() returned and the final checkpoint was saved, and then holds the header
\* and exactly EPOCHS rows, each complete, with epoch column 1, 2, ..., EPOCHS.
C5_OneRowPerEpoch ==
    \A p \in Procs :
        /\ pc[p] \in { "epoch", "val" } =>
               /\ Len(training_results[p]) = epoch_num[p]
               /\ epoch_num[p] < args[p].epochs
        /\ pc[p] \in { "save", "log" } => Len(training_results[p]) = args[p].epochs
        /\ hist[p].n_log <= 1
        /\ pc[p] \in { "check", "split", "fit", "train", "epoch", "val", "save", "log" } =>
               hist[p].n_log = 0
        /\ pc[p] = "evaluate" =>
               LET name == EpochResultsFilename(filename_params[p]) IN
               /\ hist[p].n_log = 1
               /\ hist[p].n_epochs = args[p].epochs
               /\ name \in DOMAIN results
               /\ results[name].header = CsvHeader
               /\ Len(results[name].rows) = args[p].epochs
               /\ \A i \in 1..Len(results[name].rows) :
                      /\ results[name].rows[i].epoch = i
                      /\ results[name].rows[i].cells = NumMetricLists

\* a two-epoch run whose log has just been written
C5_Witness ==
    /\ pc[1] = "evaluate"
    /\ args[1].epochs = 2
    /\ Len(results[EpochResultsFilename(filename_params[1])].rows) = 2

\* the correct count of the validation split in each completed epoch
EarlierTotals(p) == { training_results[p][k].valid_accuracy[1] : k \in 1..Len(training_results[p]) }

\* C6 (as claimed): when the validation phase of an epoch is over, the best
\* checkpoint was saved during that epoch exactly if the epoch's validation
\* accuracy (correct predictions over the whole validation split) exceeds that of
\* every earlier epoch of the run (and is not zero).
C6_BestFollowsEpochAccuracy ==
    \A p \in Procs :
        (/\ pc[p] = "val"
         /\ val_batch[p] = NumBatches(Len(df_val[p]), args[p].batch_size)
         /\ Len(df_val[p]) > 0 /\ Len(df_train[p]) > 0) =>
            (hist[p].wrote_epoch <=>
                 \A t \in EarlierTotals(p) \cup {0} : total_acc_val[p] > t)

\* C7: the final checkpoint is saved at most once, only when every epoch has run
\* its validation phase, and nothing saves a best checkpoint after it; the
\* metrics log and the test evaluation come only after it, the evaluation loads
\* the final checkpoint file, and a run that got past the existence check with a
\* non-empty train and validation split ends having saved it exactly once.
C7_FinalOnceAfterTraining ==
    \A p \in Procs :
        /\ hist[p].n_final <= 1
        /\ pc[p] \in { "check", "split", "fit", "train", "epoch", "val", "save" } =>
               hist[p].n_final = 0 /\ hist[p].n_log = 0 /\ hist[p].n_eval = 0
        /\ pc[p] \in { "log", "evaluate" } => hist[p].n_final = 1
        /\ hist[p].n_final = 1 =>
               /\ hist[p].n_epochs = args[p].epochs
               /\ pc[p] \in { "log", "evaluate", "done" }
               /\ final_model_filename[p] \in DOMAIN models
        /\ hist[p].n_log >= 1 => hist[p].n_final = 1
        /\ hist[p].n_eval >= 1 =>
               /\ hist[p].n_final = 1 /\ hist[p].n_log = 1
               /\ hist[p].loaded = final_model_filename[p]
               /\ hist[p].loaded # BestEpochModelFilename(filename_params[p])
        /\ (pc[p] = "done" /\ hist[p].split_done
                /\ hist[p].sizes[1] > 0 /\ hist[p].sizes[2] > 0) =>
               /\ hist[p].n_final = 1 /\ hist[p].n_log = 1 /\ hist[p].n_eval = 1
               /\ status[p] = "ok"

\* a completed run of at least one epoch that never saved a best checkpoint
C7_Witness ==
    /\ pc[1] = "done"
    /\ status[1] = "ok"
    /\ args[1].epochs >= 1
    /\ hist[1].n_best = 0
    /\ hist[1].n_final = 1
    /\ BestEpochModelFilename(filename_params[1]) \notin DOMAIN models

\* C8 (as claimed): a run on a non-empty reference set whose split left some part
\* empty still ends normally, having saved the final checkpoint, written the log
\* and evaluated.
C8_EmptySplitHandled ==
    \A p \in Procs :
        (/\ pc[p] = "done" /\ hist[p].split_done
         /\ hist[p].sizes[1] + hist[p].sizes[2] + hist[p].sizes[3] > 0
         /\ \E k \in 1..3 : hist[p].sizes[k] = 0) =>
            /\ status[p] = "ok"
            /\ hist[p].n_final = 1 /\ hist[p].n_log = 1 /\ hist[p].n_eval = 1

\* the three file names of a run
FileNames(p) ==
    << FinalModelFilename(filename_params[p]), BestEpochModelFilename(filename_params[p]),
       EpochResultsFilename(filename_params[p]) >>

C10_BestIsBatchMax ==
    /\ [](\A p \in Procs :
            /\ best_val_acc[p] >= 0
            /\ pc[p] \in { "epoch", "val", "save" } =>
                   /\ best_val_acc[p] = hist[p].batch_max
                   /\ hist[p].n_best <= best_val_acc[p]
                   /\ hist[p].n_best <= args[p].batch_size
                   /\ (hist[p].batch_max = 0 =>
                          /\ hist[p].n_best = 0
                          /\ best_epoch_model_filename[p] \notin DOMAIN models))
    /\ [][\A p \in Procs :
            /\ (pc[p] \in { "epoch", "val" } /\ pc'[p] \in { "epoch", "val", "save" }) =>
                   best_val_acc'[p] >= best_val_acc[p]
            /\ val_batch'[p] = val_batch[p] + 1 =>
                   LET acc == total_acc_val'[p] - total_acc_val[p] IN
                   /\ (hist'[p].n_best = hist[p].n_best + 1) <=> (acc > best_val_acc[p])
                   /\ hist'[p].n_best \in { hist[p].n_best, hist[p].n_best + 1 }
                   /\ best_val_acc'[p] = IF acc > best_val_acc[p] THEN acc ELSE best_val_acc[p]
                   /\ (acc > best_val_acc[p]) =>
                          /\ best_epoch_model_filename[p] \in DOMAIN models'
                          /\ models'[best_epoch_model_filename[p]] = p
                   /\ ~(acc > best_val_acc[p]) => models' = models]_vars

\* the best checkpoint saved twice in one call, the second time in a later epoch
C10_Witness ==
    /\ pc[1] = "val"
    /\ epoch_num[1] >= 1
    /\ hist[1].n_best = 2
    /\ hist[1].wrote_epoch
    /\ args[1].batch_size = 2

====
